---- MODULE Spec2Model ----
(***************************************************************************)
(* Model of main.go: the panorama tile downloader.                         *)
(*                                                                         *)
(*   main -> getTiles (getTilesConfig, then one fetchTile per descriptor   *)
(*   through the rate limited RLHTTPClient.Do) -> compositePano (Black,    *)
(*   decode + Insert per tile, FindTrim, ExtractArea) -> Export ->         *)
(*   WriteFile.                                                            *)
(*                                                                         *)
(* Time is a discrete clock `now`; one token of the limiter is worth       *)
(* Interval ticks (200ms in main).  Images are pixel maps; a pixel is      *)
(* <<value, dx, dy>>: the value the image bytes decode to and the place    *)
(* of the pixel inside its tile, so that a misplaced or transposed paste   *)
(* is visible.  Tile images are tileSize squares.                          *)
(***************************************************************************)
EXTENDS Integers, Sequences, FiniteSets, TLC

VARIABLES
    panoId,        \* main: panoId (input of getTiles)
    zoom,          \* the zoom argument of getTiles and compositePano
    pc,            \* position of the single thread of control
    stage,         \* pipeline stage the run has reached
    tiles,         \* getTiles: tiles (the planned descriptors)
    results,       \* getTiles: results
    ret,           \* what getTiles returned to main
    req,           \* fetchTile: descriptor of the request being made
    resp,          \* fetchTile: the response received
    rl,            \* rate.Limiter state: tokens (in ticks) and last update
    timeToAct,     \* rl.Wait: the instant the pending reservation is admitted
    now,           \* the clock, in ticks
    issued,        \* history: <<x, y>> of every request given to client.Do
    lastIssuedAt,  \* history: clock value at the latest client.Do
    minIssueGap,   \* history: least time between two successive client.Do
    admissions,    \* history: number of reservations the limiter admitted
    firstAdmitAt,  \* history: admission instant of the first reservation
    minAdmitGap,   \* history: least time between two successive admissions
    outstanding,   \* number of HTTP requests in flight
    respLog,       \* history: HTTP status of each response received
    anomaly,       \* a response other than 200 with a bright image was received
    callerCancelled, \* the caller's cancellation context has been cancelled
    batch,         \* compositePano: tiles (the argument)
    compositeCalls, \* number of calls of compositePano
    j,             \* compositePano: tiles already pasted
    pano,          \* compositePano: the canvas
    err,           \* the error main panicked with
    writeErr       \* os.WriteFile's result (assigned, never read)

vars == <<panoId, zoom, pc, stage, tiles, results, ret, req, resp, rl,
          timeToAct, now, issued, lastIssuedAt, minIssueGap, admissions,
          firstAdmitAt, minAdmitGap, outstanding, respLog, anomaly,
          callerCancelled, batch, compositeCalls,
          j, pano, err, writeErr>>

histVars == <<issued, lastIssuedAt, minIssueGap, admissions, firstAdmitAt,
              minAdmitGap, respLog>>
fetchVars == <<req, resp, rl, timeToAct, histVars, outstanding, anomaly>>
composeVars == <<batch, compositeCalls, j, pano>>

----------------------------------------------------------------------------
(* Bounds of the model.  Interval is the length of the limiter's interval  *)
(* (200ms in main) in ticks of the model's clock.                          *)

MinZoom == 0 - 1
MaxZoom == 2
MaxTime == 15
MaxBatch == 2
Interval == 2

(* Program constants *)

IntBits == 64            \* width of Go's int on the 64-bit targets
tileSize == 2            \* const tileSize: 512 pixels in main.go, 2 here
trimThreshold == 6
\* a bucket of two tokens: two requests admitted at once
BurstOfTwo == 1 + 1
\* rate.NewLimiter(_, 1)
Burst == 1

\* A zoom for which both shifts exceed the width of int
OverflowZoom == IntBits + 1

Zooms == (MinZoom .. MaxZoom) \cup {OverflowZoom}

\* A panorama id is opaque; "ctl" stands for an id holding a control byte,
\* which http.NewRequest refuses to parse.
PanoIds == {"KGt-9AaQ7UTn_PgwRqtTOg", "ctl"}

\* Response bodies: bytes that do not decode, an image darker than the trim
\* threshold, an image brighter than it.
BadBytes == 0
DarkImage == 3
BrightImage == 9
Bodies == {BadBytes, DarkImage, BrightImage}
Statuses == {200, 404}

NoTime == 0 - 1
NoErr == [kind |-> "nil", at |-> 0]
Error(kind, at) == [kind |-> kind, at |-> at]
NoRet == [returned |-> FALSE, isNil |-> TRUE, tiles |-> <<>>, err |-> NoErr]
NoReq == [x |-> 0 - 1, y |-> 0 - 1, url |-> <<>>]
NoResp == [status |-> 0, body |-> BadBytes]
NoPano == [w |-> 0, h |-> 0, px |-> <<>>]

----------------------------------------------------------------------------
(* Pure functions *)

\* 1 << n on int: a negative count panics, a count of IntBits or more
\* shifts every bit out, a count of IntBits - 1 gives the sign bit.
ShiftPanics(n) == n < 0
ShiftLeftOne(n) ==
    IF n >= IntBits THEN 0
    ELSE IF n = IntBits - 1 THEN 0 - 2 ^ (IntBits - 1)
    ELSE 2 ^ n

\* height shifted by zoom instead of zoom - 1
getDimensionsSquare(z) ==
    IF ShiftPanics(z)
    THEN [panic |-> TRUE, width |-> 0, height |-> 0]
    ELSE [panic |-> FALSE, width |-> ShiftLeftOne(z), height |-> ShiftLeftOne(z)]

getDimensionsFromZoom(z) ==
    IF ShiftPanics(z) \/ ShiftPanics(z - 1)
    THEN [panic |-> TRUE, width |-> 0, height |-> 0]
    ELSE [panic |-> FALSE, width |-> ShiftLeftOne(z),
          height |-> ShiftLeftOne(z - 1)]

\* The URL template: the fields that fill it
makePanoUrl(p, z, x, y) == <<p, z, x, y>>

RECURSIVE innerLoop(_, _, _, _, _, _)
innerLoop(p, z, dim, x, y, acc) ==
    IF y < dim.height
    THEN innerLoop(p, z, dim, x, y + 1,
                   Append(acc, [x |-> x, y |-> y, url |-> makePanoUrl(p, z, x, y)]))
    ELSE acc

RECURSIVE outerLoop(_, _, _, _, _)
outerLoop(p, z, dim, x, acc) ==
    IF x < dim.width
    THEN outerLoop(p, z, dim, x + 1, innerLoop(p, z, dim, x, 0, acc))
    ELSE acc

\* Row-major enumeration: the two loops exchanged
RECURSIVE rowLoop(_, _, _, _, _, _)
rowLoop(p, z, dim, x, y, acc) ==
    IF x < dim.width
    THEN rowLoop(p, z, dim, x + 1, y,
                 Append(acc, [x |-> x, y |-> y, url |-> makePanoUrl(p, z, x, y)]))
    ELSE acc

RECURSIVE rowMajorLoop(_, _, _, _, _)
rowMajorLoop(p, z, dim, y, acc) ==
    IF y < dim.height
    THEN rowMajorLoop(p, z, dim, y + 1, rowLoop(p, z, dim, 0, y, acc))
    ELSE acc

getTilesConfigRowMajor(p, z) ==
    LET dim == getDimensionsFromZoom(z) IN
    IF dim.panic \/ dim.width * dim.height < 0
    THEN [panic |-> TRUE, tiles |-> <<>>]
    ELSE [panic |-> FALSE, tiles |-> rowMajorLoop(p, z, dim, 0, <<>>)]

\* make panics on a negative capacity
getTilesConfig(p, z) ==
    LET dim == getDimensionsFromZoom(z) IN
    IF dim.panic \/ dim.width * dim.height < 0
    THEN [panic |-> TRUE, tiles |-> <<>>]
    ELSE [panic |-> FALSE, tiles |-> outerLoop(p, z, dim, 0, <<>>)]

\* http.NewRequest fails on a URL it cannot parse
NewRequestFails(url) == url[1] = "ctl"

\* the coordinates exchanged
MakeTileDataSwapped(tile, result) == [x |-> tile.y, y |-> tile.x, data |-> result]

\* tileData{x: tile.x, y: tile.y, data: result}
MakeTileData(tile, result) == [x |-> tile.x, y |-> tile.y, data |-> result]

----------------------------------------------------------------------------
(* The rate limiter (rate.NewLimiter(rate.Every(Interval), Burst)) *)

Min(a, b) == IF a < b THEN a ELSE b
Max(a, b) == IF a > b THEN a ELSE b

\* the least gap seen, once the gap g is seen too
LeastGap(old, g) == IF old = NoTime THEN g ELSE Min(old, g)

NewLimiter(burst) == [tokens |-> burst * Interval, last |-> 0, burst |-> burst]

\* tokens the bucket holds at time t: refilled one tick's worth per tick,
\* never above the burst
advance(lim, t) == Min(lim.burst * Interval, lim.tokens + (t - lim.last))

\* reserveN(t, 1): take one token (Interval ticks' worth); a negative
\* balance is the time still to wait
reserve(lim, t) ==
    LET left == advance(lim, t) - Interval IN
    [lim |-> [lim EXCEPT !.tokens = left, !.last = t],
     timeToAct |-> IF left < 0 THEN t - left ELSE t]

----------------------------------------------------------------------------
(* Initial state: main has armed the limiter and is about to call getTiles *)

Init ==
    /\ panoId \in PanoIds
    /\ zoom \in Zooms
    /\ pc = "main"
    /\ stage = "Start"
    /\ tiles = <<>>
    /\ results = <<>>
    /\ ret = NoRet
    /\ req = NoReq
    /\ resp = NoResp
    /\ rl = NewLimiter(Burst)
    /\ timeToAct = 0
    /\ now = 0
    /\ issued = <<>>
    /\ lastIssuedAt = NoTime
    /\ minIssueGap = NoTime
    /\ admissions = 0
    /\ firstAdmitAt = NoTime
    /\ minAdmitGap = NoTime
    /\ outstanding = 0
    /\ respLog = <<>>
    /\ anomaly = FALSE
    /\ callerCancelled = FALSE
    /\ batch = <<>>
    /\ compositeCalls = 0
    /\ j = 0
    /\ pano = NoPano
    /\ err = NoErr
    /\ writeErr = NoErr

----------------------------------------------------------------------------
(* getTiles *)

\* An unrecovered panic ends the process
Panic(e) ==
    /\ pc' = "panicked"
    /\ stage' = "Failed"
    /\ err' = e

\* return results, err: the tiles fetched so far go back with the error
ReturnPartial(e) ==
    /\ ret' = [returned |-> TRUE, isNil |-> FALSE, tiles |-> results, err |-> e]
    /\ pc' = "returned"

\* getTiles: return nil, err
ReturnErr(e) ==
    /\ ret' = [returned |-> TRUE, isNil |-> TRUE, tiles |-> <<>>, err |-> e]
    /\ pc' = "returned"

\* main calls getTiles; getTiles calls getTilesConfig and makes results
Plan ==
    /\ pc = "main"
    /\ LET cfg == getTilesConfig(panoId, zoom) IN
       IF cfg.panic
       THEN /\ Panic(Error("shift", 0))
            /\ UNCHANGED tiles
       ELSE /\ tiles' = cfg.tiles
            /\ pc' = "loop"
            /\ stage' = "Planned"
            /\ UNCHANGED err
    /\ UNCHANGED <<panoId, zoom, results, ret, fetchVars, now, callerCancelled,
                   composeVars, writeErr>>

\* for _, tile := range tiles: the next descriptor, and fetchTile's
\* http.NewRequest for it
NextTile ==
    /\ pc = "loop"
    /\ Len(results) < Len(tiles)
    /\ stage' = "Fetching"
    /\ LET tile == tiles[Len(results) + 1] IN
       IF NewRequestFails(tile.url)
       THEN /\ ReturnErr(Error("newrequest", Len(results) + 1))
            /\ UNCHANGED req
       ELSE /\ req' = tile
            /\ pc' = "wait"
            /\ UNCHANGED ret
    /\ UNCHANGED <<panoId, zoom, tiles, results, resp, rl, timeToAct, now,
                   histVars, outstanding, anomaly,
                   callerCancelled, composeVars, err, writeErr>>

\* the range is exhausted: return results, nil
LoopExit ==
    /\ pc = "loop"
    /\ Len(results) = Len(tiles)
    /\ stage' = "Fetching"
    /\ ret' = [returned |-> TRUE, isNil |-> FALSE, tiles |-> results, err |-> NoErr]
    /\ pc' = "returned"
    /\ UNCHANGED <<panoId, zoom, tiles, results, fetchVars, now, callerCancelled,
                   composeVars, err, writeErr>>

\* RLHTTPClient.Do: c.rl.Wait(context.Background()) takes its reservation
RLWait ==
    /\ pc = "wait"
    /\ LET r == reserve(rl, now) IN
       /\ rl' = r.lim
       /\ timeToAct' = r.timeToAct
       /\ admissions' = admissions + 1
       /\ firstAdmitAt' = IF admissions = 0 THEN r.timeToAct ELSE firstAdmitAt
       /\ minAdmitGap' = IF admissions = 0 THEN minAdmitGap
                         ELSE LeastGap(minAdmitGap, r.timeToAct - timeToAct)
    /\ pc' = "sleep"
    /\ UNCHANGED <<panoId, zoom, stage, tiles, results, ret, req, resp, now,
                   issued, lastIssuedAt, minIssueGap, outstanding, respLog, anomaly,
                   callerCancelled, composeVars, err, writeErr>>

\* The caller's context is cancelled while the fetch is blocked in Wait.
\* Wait was given context.Background(), so nothing in Do observes it.
CancelCaller ==
    /\ pc = "sleep"
    /\ now < timeToAct
    /\ ~callerCancelled
    /\ callerCancelled' = TRUE
    /\ UNCHANGED <<panoId, zoom, pc, stage, tiles, results, ret, fetchVars, now,
                   composeVars, err, writeErr>>

\* Wait sleeps until the reservation's time has come and returns nil
RLAdmit ==
    /\ pc = "sleep"
    /\ now' = Max(now, timeToAct)
    /\ pc' = "admitted"
    /\ UNCHANGED <<panoId, zoom, stage, tiles, results, ret, fetchVars,
                   callerCancelled, composeVars, err, writeErr>>

\* c.client.Do(req): the request goes out
ClientDo ==
    /\ pc = "admitted"
    /\ issued' = Append(issued, <<req.x, req.y>>)
    /\ lastIssuedAt' = now
    /\ minIssueGap' = IF issued = <<>> THEN minIssueGap
                      ELSE LeastGap(minIssueGap, now - lastIssuedAt)
    /\ outstanding' = outstanding + 1
    /\ pc' = "inflight"
    /\ UNCHANGED <<panoId, zoom, stage, tiles, results, ret, req, resp, rl,
                   timeToAct, now, admissions, firstAdmitAt, minAdmitGap,
                   respLog, anomaly,
                   callerCancelled, composeVars, err, writeErr>>

\* client.Do fails: Do and fetchTile return the error, getTiles returns it
TransportError ==
    /\ pc = "inflight"
    /\ outstanding' = outstanding - 1
    /\ ReturnErr(Error("transport", Len(results) + 1))
    /\ UNCHANGED <<panoId, zoom, stage, tiles, results, req, resp, rl, timeToAct,
                   now, histVars, anomaly,
                   callerCancelled, composeVars, err, writeErr>>

\* client.Do returns the tile: status 200 and a bright image
Response ==
    /\ pc = "inflight"
    /\ resp' = [status |-> 200, body |-> BrightImage]
    /\ respLog' = Append(respLog, 200)
    /\ outstanding' = outstanding - 1
    /\ pc' = "read"
    /\ UNCHANGED <<panoId, zoom, stage, tiles, results, ret, req, rl, timeToAct,
                   now, issued, lastIssuedAt, minIssueGap, admissions,
                   firstAdmitAt, minAdmitGap, anomaly, callerCancelled,
                   composeVars, err, writeErr>>

\* client.Do returns any other response: it has no error for a status.
\* (The model lets one response of a run be such a response.)
AbnormalResponse ==
    /\ pc = "inflight"
    /\ ~anomaly
    /\ \E st \in Statuses, body \in Bodies :
          /\ ~(st = 200 /\ body = BrightImage)
          /\ resp' = [status |-> st, body |-> body]
          /\ respLog' = Append(respLog, st)
    /\ anomaly' = TRUE
    /\ outstanding' = outstanding - 1
    /\ pc' = "read"
    /\ UNCHANGED <<panoId, zoom, stage, tiles, results, ret, req, rl, timeToAct,
                   now, issued, lastIssuedAt, minIssueGap, admissions,
                   firstAdmitAt, minAdmitGap, callerCancelled, composeVars, err,
                   writeErr>>

\* io.ReadAll(resp.Body) succeeds; getTiles appends the tileData
ReadBody ==
    /\ pc = "read"
    /\ results' = Append(results, MakeTileData(req, resp.body))
    /\ pc' = "loop"
    /\ UNCHANGED <<panoId, zoom, stage, tiles, ret, fetchVars, now,
                   callerCancelled, composeVars, err, writeErr>>

\* io.ReadAll fails; getTiles returns the error
ReadError ==
    /\ pc = "read"
    /\ ReturnErr(Error("read", Len(results) + 1))
    /\ UNCHANGED <<panoId, zoom, stage, tiles, results, fetchVars, now,
                   callerCancelled, composeVars, err, writeErr>>

\* Time passes while getTiles runs
Tick ==
    /\ pc \in {"loop", "wait", "sleep", "admitted", "inflight", "read"}
    /\ now < MaxTime
    /\ now' = now + 1
    /\ UNCHANGED <<panoId, zoom, pc, stage, tiles, results, ret, fetchVars,
                   callerCancelled, composeVars, err, writeErr>>

----------------------------------------------------------------------------
(* Images *)

Background == <<0, 0, 0>>
Lum(pixel) == pixel[1]

Rect(w, h) == (0 .. w - 1) \X (0 .. h - 1)

\* vips.Black(w, h): refuses an empty image
BlackFails(w, h) == w < 1 \/ h < 1
Black(w, h) == [w |-> w, h |-> h, px |-> [p \in Rect(w, h) |-> Background]]

\* vips.NewImageFromBuffer
DecodeFails(data) == data = BadBytes
Decode(data) ==
    [w |-> tileSize, h |-> tileSize,
     px |-> [p \in Rect(tileSize, tileSize) |-> <<data, p[1], p[2]>>]]

\* the offsets exchanged
PasteOffsetSwapped(tile) == <<tileSize * tile.y, tileSize * tile.x>>

\* where compositePano pastes a tile: (tileSize * tile.x, tileSize * tile.y)
PasteOffset(tile) == <<tileSize * tile.x, tileSize * tile.y>>

\* pano.Insert(sub, x, y, false, _): sub overwrites main from (x, y) on,
\* the result keeps main's size
Insert(main, sub, x, y) ==
    [main EXCEPT !.px =
        [p \in Rect(main.w, main.h) |->
            IF /\ p[1] >= x /\ p[1] < x + sub.w
               /\ p[2] >= y /\ p[2] < y + sub.h
            THEN sub.px[<<p[1] - x, p[2] - y>>]
            ELSE main.px[p]]]

SetMin(S) == CHOOSE m \in S : \A n \in S : m <= n
SetMax(S) == CHOOSE m \in S : \A n \in S : m >= n

\* pano.FindTrim(trimThreshold, black): the bounding box of the pixels that
\* differ from the background by more than the threshold; an empty box when
\* there is none
FindTrim(img) ==
    LET content == {p \in Rect(img.w, img.h) :
                       Lum(img.px[p]) - Lum(Background) > trimThreshold}
        xs == {p[1] : p \in content}
        ys == {p[2] : p \in content}
    IN IF content = {}
       THEN [left |-> 0, top |-> 0, width |-> 0, height |-> 0]
       ELSE [left |-> SetMin(xs), top |-> SetMin(ys),
             width |-> SetMax(xs) - SetMin(xs) + 1,
             height |-> SetMax(ys) - SetMin(ys) + 1]

\* pano.ExtractArea(left, top, width, height): refuses an empty area
ExtractFails(box) == box.width < 1 \/ box.height < 1
ExtractArea(img, box) ==
    [w |-> box.width, h |-> box.height,
     px |-> [p \in Rect(box.width, box.height) |->
                img.px[<<p[1] + box.left, p[2] + box.top>>]]]

----------------------------------------------------------------------------
(* main after getTiles, and compositePano *)

\* main without the check of err: compositePano is called whatever happened
CheckTilesIgnoringErr ==
    /\ pc = "returned"
    /\ batch' = ret.tiles
    /\ compositeCalls' = compositeCalls + 1
    /\ pc' = "black"
    /\ stage' = "Composing"
    /\ UNCHANGED <<panoId, zoom, tiles, results, ret, fetchVars, now,
                   callerCancelled, j, pano, err, writeErr>>

\* main: if err != nil { panic(err) }, else compositePano(tiles, defaultZoom)
CheckTiles ==
    /\ pc = "returned"
    /\ IF ret.err # NoErr
       THEN /\ Panic(ret.err)
            /\ UNCHANGED <<batch, compositeCalls>>
       ELSE /\ batch' = ret.tiles
            /\ compositeCalls' = compositeCalls + 1
            /\ pc' = "black"
            /\ stage' = "Composing"
            /\ UNCHANGED err
    /\ UNCHANGED <<panoId, zoom, tiles, results, ret, fetchVars, now,
                   callerCancelled, j, pano, writeErr>>

\* compositePano: the dimensions and vips.Black
MakeCanvas ==
    /\ pc = "black"
    /\ LET dim == getDimensionsFromZoom(zoom) IN
       IF dim.panic
       THEN /\ Panic(Error("shift", 0))
            /\ UNCHANGED <<pano, j>>
       ELSE IF BlackFails(tileSize * dim.width, tileSize * dim.height)
       THEN /\ Panic(Error("black", 0))
            /\ UNCHANGED <<pano, j>>
       ELSE /\ pano' = Black(tileSize * dim.width, tileSize * dim.height)
            /\ j' = 0
            /\ pc' = "paste"
            /\ UNCHANGED <<stage, err>>
    /\ UNCHANGED <<panoId, zoom, tiles, results, ret, fetchVars, now,
                   callerCancelled, batch, compositeCalls, writeErr>>

\* for _, tile := range tiles: decode the tile and insert it
PasteTile ==
    /\ pc = "paste"
    /\ j < Len(batch)
    /\ LET tile == batch[j + 1]
           at == PasteOffset(tile)
       IN IF DecodeFails(tile.data)
          THEN /\ Panic(Error("decode", j + 1))
               /\ UNCHANGED <<pano, j>>
          ELSE /\ pano' = Insert(pano, Decode(tile.data), at[1], at[2])
               /\ j' = j + 1
               /\ UNCHANGED <<pc, stage, err>>
    /\ UNCHANGED <<panoId, zoom, tiles, results, ret, fetchVars, now,
                   callerCancelled, batch, compositeCalls, writeErr>>

\* FindTrim and ExtractArea; compositePano returns the trimmed canvas
Trim ==
    /\ pc = "paste"
    /\ j = Len(batch)
    /\ LET box == FindTrim(pano) IN
       IF ExtractFails(box)
       THEN /\ Panic(Error("extract", 0))
            /\ UNCHANGED pano
       ELSE /\ pano' = ExtractArea(pano, box)
            /\ pc' = "export"
            /\ stage' = "Trimmed"
            /\ UNCHANGED err
    /\ UNCHANGED <<panoId, zoom, tiles, results, ret, fetchVars, now,
                   callerCancelled, batch, compositeCalls, j,
                   writeErr>>

\* pano.Export(ep) succeeds
Export ==
    /\ pc = "export"
    /\ pc' = "write"
    /\ stage' = "Encoded"
    /\ UNCHANGED <<panoId, zoom, tiles, results, ret, fetchVars, now,
                   callerCancelled, composeVars, err, writeErr>>

\* pano.Export(ep) fails
ExportError ==
    /\ pc = "export"
    /\ Panic(Error("export", 0))
    /\ UNCHANGED <<panoId, zoom, tiles, results, ret, fetchVars, now,
                   callerCancelled, composeVars, writeErr>>

\* err = os.WriteFile(...): the result is assigned and main returns
WriteFile ==
    /\ pc = "write"
    /\ \E e \in {NoErr, Error("write", 0)} : writeErr' = e
    /\ pc' = "done"
    /\ UNCHANGED <<panoId, zoom, stage, tiles, results, ret, fetchVars, now,
                   callerCancelled, composeVars, err>>

Next ==
    \/ Plan
    \/ NextTile
    \/ LoopExit
    \/ RLWait
    \/ CancelCaller
    \/ RLAdmit
    \/ ClientDo
    \/ TransportError
    \/ Response
    \/ AbnormalResponse
    \/ ReadBody
    \/ ReadError
    \/ CheckTiles
    \/ MakeCanvas
    \/ PasteTile
    \/ Trim
    \/ Export
    \/ ExportError
    \/ WriteFile

Spec == Init /\ [][Next]_vars

\* The run with the clock free to advance between any two steps of getTiles
NextTimed ==
    \/ Plan
    \/ NextTile
    \/ LoopExit
    \/ RLWait
    \/ RLAdmit
    \/ ClientDo
    \/ TransportError
    \/ Response
    \/ ReadBody
    \/ ReadError
    \/ Tick
    \/ CheckTiles

SpecTimed == Init /\ [][NextTimed]_vars

----------------------------------------------------------------------------
(* compositePano on its own: any batch of tiles with distinct coordinates *)
(* inside the grid, in any order, each tile a solid colour of its own     *)

TileColour(x, y) == BrightImage + x * IntBits + y

Cells(z) ==
    LET dim == getDimensionsFromZoom(z) IN
    (0 .. dim.width - 1) \X (0 .. dim.height - 1)

RECURSIVE Batches(_, _)
Batches(z, n) ==
    IF n = 0 THEN {<<>>}
    ELSE LET shorter == Batches(z, n - 1) IN
         shorter \cup
         {Append(b, [x |-> c[1], y |-> c[2], data |-> TileColour(c[1], c[2])]) :
            b \in {s \in shorter : Len(s) = n - 1},
            c \in Cells(z)}

DistinctCoordinates(b) ==
    \A m, n \in 1 .. Len(b) : m # n => <<b[m].x, b[m].y>> # <<b[n].x, b[n].y>>

InitCompose ==
    /\ panoId \in {"KGt-9AaQ7UTn_PgwRqtTOg"}
    /\ zoom \in 1 .. MaxZoom
    /\ pc = "black"
    /\ stage = "Composing"
    /\ tiles = <<>>
    /\ results = <<>>
    /\ ret = NoRet
    /\ req = NoReq
    /\ resp = NoResp
    /\ rl = NewLimiter(Burst)
    /\ timeToAct = 0
    /\ now = 0
    /\ issued = <<>>
    /\ lastIssuedAt = NoTime
    /\ minIssueGap = NoTime
    /\ admissions = 0
    /\ firstAdmitAt = NoTime
    /\ minAdmitGap = NoTime
    /\ outstanding = 0
    /\ respLog = <<>>
    /\ anomaly = FALSE
    /\ callerCancelled = FALSE
    /\ batch \in {b \in Batches(zoom, MaxBatch) : DistinctCoordinates(b)}
    /\ compositeCalls = 1
    /\ j = 0
    /\ pano = NoPano
    /\ err = NoErr
    /\ writeErr = NoErr

NextCompose ==
    \/ MakeCanvas
    \/ PasteTile
    \/ Trim

SpecCompose == InitCompose /\ [][NextCompose]_vars

----------------------------------------------------------------------------
(* Properties *)

Coord(t) == <<t.x, t.y>>
Pow2(n) == 2 ^ n

\* getTilesConfig has returned
Planned == pc # "main" /\ err.kind # "shift"

\* the descriptors are the grid of the zoom, each cell once
GridExact ==
    /\ Len(tiles) = Pow2(zoom) * Pow2(zoom - 1)
    /\ \A m \in 1 .. Len(tiles) :
          /\ tiles[m].x \in 0 .. Pow2(zoom) - 1
          /\ tiles[m].y \in 0 .. Pow2(zoom - 1) - 1
    /\ \A c \in (0 .. Pow2(zoom) - 1) \X (0 .. Pow2(zoom - 1) - 1) :
          Cardinality({m \in 1 .. Len(tiles) : Coord(tiles[m]) = c}) = 1

\* C1: when the k-th fetch fails, getTiles returns that error and no tile
\* list, fetches 1..k-1 were each issued once, fetches k+1..N never, and
\* compositePano is not called.
C1_DownloaderAbort ==
    ret.err # NoErr =>
        LET k == Len(results) + 1 IN
        /\ ret.returned /\ ret.isNil /\ ret.tiles = <<>>
        /\ ret.err.at = k
        /\ ret.err.kind \in {"newrequest", "transport", "read"}
        /\ k <= Len(tiles)
        /\ Len(issued) \in {k - 1, k}
        /\ \A m \in 1 .. Len(issued) : issued[m] = Coord(tiles[m])
        /\ compositeCalls = 0
        /\ pc \in {"returned", "panicked"}
        /\ pc = "panicked" => err = ret.err

C1_Witness ==
    /\ pc = "panicked"
    /\ ret.err.kind = "transport"
    /\ ret.err.at = 3
    /\ Len(tiles) = 8

\* C2 as stated: every request has its own admission, any two requests are
\* issued at least Interval apart, and the k-th request is issued at least
\* (k-1) * Interval after the first admission.
C2_RequestsIntervalApart ==
    /\ admissions \in {Len(issued), Len(issued) + 1}
    /\ minIssueGap # NoTime => minIssueGap >= Interval
    /\ issued # <<>> => lastIssuedAt - firstAdmitAt >= (Len(issued) - 1) * Interval

\* C2 amended: every request has its own admission and is issued no earlier
\* than it, any two admissions are at least Interval apart, and the k-th
\* request is issued at least (k-1) * Interval after the first admission.
C2_AdmissionsIntervalApart ==
    /\ admissions \in {Len(issued), Len(issued) + 1}
    /\ pc \in {"admitted", "sleep"} <=> admissions = Len(issued) + 1
    /\ (issued # <<>> /\ admissions = Len(issued)) => lastIssuedAt >= timeToAct
    /\ minAdmitGap # NoTime => minAdmitGap >= Interval
    /\ issued # <<>> => lastIssuedAt - firstAdmitAt >= (Len(issued) - 1) * Interval

C2_Witness ==
    /\ Len(issued) = 3
    /\ minAdmitGap = Interval
    /\ minIssueGap # NoTime
    /\ minIssueGap < Interval

\* C3: compositePano is called only once every planned descriptor has its
\* tileData, with exactly one tileData per planned cell, at the coordinates
\* of the descriptor it was fetched for; a failed run never calls it.
C3_AllOrNothing ==
    /\ compositeCalls > 0 =>
          /\ compositeCalls = 1
          /\ ret.err = NoErr
          /\ Len(results) = Len(tiles)
          /\ Len(batch) = Len(tiles)
          /\ \A m \in 1 .. Len(tiles) :
                /\ Coord(batch[m]) = Coord(tiles[m])
                /\ Cardinality({n \in 1 .. Len(batch) :
                                   Coord(batch[n]) = Coord(tiles[m])}) = 1
    /\ ret.err # NoErr => compositeCalls = 0

C3_Witness ==
    /\ compositeCalls = 1
    /\ Len(batch) = 8
    /\ pc = "paste"

\* C4 as stated: for every zoom >= 1 the descriptors are exactly the grid
\* 2^zoom by 2^(zoom-1), each cell once.  (Cell (0,0) is in every such
\* grid; it is asked for first.)
C4_GridForEveryZoom ==
    (Planned /\ zoom >= 1) =>
        /\ \E m \in 1 .. Len(tiles) : Coord(tiles[m]) = <<0, 0>>
        /\ GridExact

\* the largest zoom whose descriptor count fits int
FitZoom == (IntBits \div 2) - 1

\* C4 amended: for every zoom from 1 to FitZoom the descriptors are exactly
\* the grid 2^zoom by 2^(zoom-1), each cell once; for a zoom above IntBits
\* both shifts give 0 and there is no descriptor.
C4_GridWhileIntFits ==
    Planned =>
        /\ zoom \in 1 .. FitZoom => GridExact
        /\ zoom > IntBits => tiles = <<>>

C4_Witness ==
    /\ Planned
    /\ zoom = 2
    /\ Len(tiles) = 8
    /\ Coord(tiles[8]) = <<3, 1>>

\* C5: once the caller's context is cancelled during an admission wait, the
\* fetch fails and no request goes out.
C5_CancelStopsFetch == [][callerCancelled => issued' = issued]_vars

\* C6: no tile is taken from a response whose status is not 2xx.
C6_Non2xxIsAnError ==
    \A m \in 1 .. Len(results) : respLog[m] \in 200 .. 299

\* the tile of the batch that covers pixel p, if any
Covering(p) ==
    {m \in 1 .. Len(batch) :
        /\ p[1] \in tileSize * batch[m].x .. tileSize * batch[m].x + tileSize - 1
        /\ p[2] \in tileSize * batch[m].y .. tileSize * batch[m].y + tileSize - 1}

\* C7: after the paste loop the canvas has the size of the grid, every pixel
\* of a tile's square holds that tile's pixel, every other pixel the
\* background.
C7_Placement ==
    (pc = "paste" /\ j = Len(batch)) =>
        /\ pano.w = tileSize * Pow2(zoom)
        /\ pano.h = tileSize * Pow2(zoom - 1)
        /\ DOMAIN pano.px = Rect(pano.w, pano.h)
        /\ \A p \in Rect(pano.w, pano.h) :
              /\ Cardinality(Covering(p)) <= 1
              /\ \A m \in Covering(p) :
                    pano.px[p] =
                        Decode(batch[m].data).px[<<p[1] - tileSize * batch[m].x,
                                                  p[2] - tileSize * batch[m].y>>]
              /\ Covering(p) = {} => pano.px[p] = Background

C7_Witness ==
    /\ pc = "paste"
    /\ zoom = 2
    /\ Len(batch) = 2
    /\ j = 2
    /\ Coord(batch[1]) = <<3, 1>>
    /\ Coord(batch[2]) = <<1, 0>>

StageAfter(st) ==
    CASE st = "Start" -> "Planned"
      [] st = "Planned" -> "Fetching"
      [] st = "Fetching" -> "Composing"
      [] st = "Composing" -> "Trimmed"
      [] st = "Trimmed" -> "Encoded"
      [] OTHER -> "None"

C9_SequentialColumnMajor ==
    /\ \A m \in 1 .. Len(issued) :
          LET h == getDimensionsFromZoom(zoom).height IN
          issued[m] = <<(m - 1) \div h, (m - 1) % h>>
    /\ outstanding \in {0, 1}
    /\ outstanding = 1 <=> pc = "inflight"
    /\ Len(issued) \in {Len(results), Len(results) + 1}
    /\ outstanding = 1 => Len(issued) = Len(results) + 1

C9_Witness ==
    /\ pc = "inflight"
    /\ Len(issued) = 4
    /\ issued[4] = <<1, 1>>

\* C10: for a zoom <= 0 there is never a descriptor and never a fetch.
C10_DegenerateZoom ==
    zoom <= 0 => tiles = <<>> /\ issued = <<>> /\ admissions = 0

C10_Witness ==
    /\ zoom = 0
    /\ pc = "panicked"
    /\ err.kind = "shift"

====
